---------------------------- MODULE Spec2Model ----------------------------
(***************************************************************************)
(* Model of the two log parsers of the repository:                         *)
(*   src/modsec_s.py  streaming ModSecurity parser (multi-pattern matcher) *)
(*   src/ufwlog.py    firewall-log parser (token-split key/value decoder)  *)
(***************************************************************************)
EXTENDS Integers, Sequences, FiniteSets, TLC

VARIABLES
    data,               \* modsec_s.parse: the iterable of lines handed in
    data_ok,            \* modsec_s.parse: data is a non-string iterable
    raw,                \* modsec_s.parse: raw option
    ignore_exceptions,  \* modsec_s.parse: ignore_exceptions option
    pc,                 \* modsec_s.parse: position of the generator
    pos,                \* modsec_s.parse: number of lines pulled from data
    out,                \* modsec_s.parse: values yielded so far
    udata,              \* ufwlog.parse: data.splitlines()
    uraw,               \* ufwlog.parse: raw option
    upc,                \* ufwlog.parse: position of the call
    upos,               \* ufwlog.parse: number of lines taken from the loop
    raw_output,         \* ufwlog.parse: raw_output list
    mline,              \* matcher applied alone: the line
    mres,               \* matcher applied alone: the merged record
    mpc,                \* matcher applied alone: position
    cline,              \* Convert applied alone: the line that is split
    cres,               \* Convert applied alone: the returned dict
    cpc                 \* Convert applied alone: position

vars == <<data, data_ok, raw, ignore_exceptions, pc, pos, out,
          udata, uraw, upc, upos, raw_output,
          mline, mres, mpc, cline, cres, cpc>>

mvars == <<data, data_ok, raw, ignore_exceptions, pc, pos, out>>
uvars == <<udata, uraw, upc, upos, raw_output>>
fvars == <<mline, mres, mpc>>
cvars == <<cline, cres, cpc>>

---------------------------------------------------------------------------
(* Bounds of the inputs that are enumerated.                               *)

\* segments per line, matcher applied alone
MaxSegs == 2
\* lines of a modsec_s input
MaxLines == 3
\* lines of a ufwlog input
MaxULines == 3
\* characters of a line handed to Convert alone
MaxLineLen == 6

---------------------------------------------------------------------------
(* Python values.  A dict is a function from keys to tagged values.        *)

None == [t |-> "none"]
StrVal(s) == [t |-> "str", s |-> s]
IntVal(n) == [t |-> "int", n |-> n]
DictVal(d) == [t |-> "dict", d |-> d]

EmptyDict == [k \in {} |-> None]

\* a | b  (dict union: the right operand wins on a shared key)
DictUnion(a, b) ==
    [k \in (DOMAIN a) \cup (DOMAIN b) |-> IF k \in DOMAIN b THEN b[k] ELSE a[k]]

\* d[key] = value on a dict
DictSet(d, key, value) ==
    [k \in (DOMAIN d) \cup {key} |-> IF k = key THEN value ELSE d[k]]

---------------------------------------------------------------------------
(* Lines of a ModSecurity error log.  A line is kept in structured form:   *)
(*   lead    leading white space ("" or " ")                               *)
(*   hdr     the line carries the "[date] [level] [pid N] [client A:P]     *)
(*           [client A]" prefix                                            *)
(*   detail  the free-text message follows                                 *)
(*   segs    the bracketed [tag "value"] segments, in order                *)
(*   trail   trailing white space ("", " " or a newline)                   *)
(* Its text is lead, the parts joined by single spaces, trail.             *)
(* isStr = FALSE stands for an item of the iterable that is not a str.     *)

HdrText ==
    "[Mon Jan 08 15:39:55.735479 2024] [:error] [pid 3426173] [client 90.65.66.20:56764] [client 90.65.66.20]"
DetailText == "ModSecurity: Warning."

SegTags == {"id", "line", "msg", "data", "tag", "unique_id"}
SegVals == {"", "-", "7"}
Segs == [t : SegTags, v : SegVals]

SegText(seg) == "[" \o seg.t \o " \"" \o seg.v \o "\"]"

RECURSIVE JoinSegs(_)
JoinSegs(segs) ==
    IF segs = <<>> THEN ""
    ELSE IF Len(segs) = 1 THEN SegText(segs[1])
    ELSE SegText(segs[1]) \o " " \o JoinSegs(Tail(segs))

\* the parts of the line before the segments
Prefix(line) ==
    IF line.hdr /\ line.detail THEN HdrText \o " " \o DetailText
    ELSE IF line.hdr THEN HdrText
    ELSE IF line.detail THEN DetailText
    ELSE ""

\* line.strip(): the text without its leading and trailing white space
strip(line) ==
    IF Prefix(line) = "" THEN JoinSegs(line.segs)
    ELSE IF line.segs = <<>> THEN Prefix(line)
    ELSE Prefix(line) \o " " \o JoinSegs(line.segs)

\* the text of the line as the iterable delivers it
Text(line) == line.lead \o strip(line) \o line.trail

NonStr == [isStr |-> FALSE, lead |-> "", hdr |-> FALSE, detail |-> FALSE,
           segs |-> <<>>, trail |-> ""]

SegSeqs(n) == UNION {[1..k -> Segs] : k \in 0..n}

StrLines(n) ==
    [isStr : {TRUE}, lead : {"", " "}, hdr : BOOLEAN, detail : BOOLEAN,
     segs : SegSeqs(n), trail : {"", " ", "\n"}]

---------------------------------------------------------------------------
(* The ordered pattern list of modsec_s.parse, read on structured lines.   *)
(* Every pattern but the second starts with ^.* : the greedy prefix makes  *)
(* the engine settle on the LAST place of the line where the rest of the   *)
(* pattern matches.                                                        *)

\* character classes of the capture groups
InClass(v, cls) ==
    CASE cls = "digits" -> v \in {"7"}                \* \d+
      [] cls = "path"   -> v \in {"", "-", "7"}       \* [@A-Za-z0-9_\./\\-]*
      [] OTHER          -> TRUE                       \* [^\[]*

\* the segment at index i is followed by a space
SpaceAfter(line, i) == i < Len(line.segs) \/ line.trail = " "

\* the last of the segment indexes S, 0 when there is none
LastSeg(S) == IF S = {} THEN 0 ELSE CHOOSE i \in S : \A j \in S : j <= i

NoMatch == [matched |-> FALSE, groups |-> EmptyDict]
Groups(g) == [matched |-> TRUE, groups |-> g]

\* ^.*\[client[ ](\S+)\][ ](?P<msg_detail>[^\[]*)[ ](?P<fuck>\[\S\S+)
MatchDetail(line) ==
    IF line.hdr /\ line.detail /\ Len(line.segs) >= 1
    THEN Groups(("msg_detail" :> StrVal(DetailText))
                @@ ("fuck" :> StrVal("[" \o line.segs[1].t)))
    ELSE NoMatch

\* ^\[(?P<date>...)\][ ]\[(?P<loglevel>\S+)\][ ]\[pid[ ](?P<pid>\d+)\][ ]
\*  \[client[ ](?P<client_port>\S+)\][ ]\[client[ ](?P<client>\S+)\][ ]
HdrGroups ==
    [date |-> StrVal("Mon Jan 08 15:39:55.735479 2024"),
     day_of_week |-> StrVal("Mon"), month |-> StrVal("Jan"), day |-> StrVal("08"),
     hour |-> StrVal("15"), minute |-> StrVal("39"), second |-> StrVal("55.735479"),
     year |-> StrVal("2024"), loglevel |-> StrVal(":error"), pid |-> StrVal("3426173"),
     client_port |-> StrVal("90.65.66.20:56764"), client |-> StrVal("90.65.66.20")]

MatchHeader(line) ==
    IF /\ line.lead = ""
       /\ line.hdr
       /\ (line.detail \/ Len(line.segs) >= 1 \/ line.trail = " ")
    THEN Groups(HdrGroups)
    ELSE NoMatch

\* ^.*(\[TAG[ ]"(?P<TAG>CLASS)"\][ ])
MatchQuoted(line, tag, cls) ==
    LET Hit(i) == /\ line.segs[i].t = tag
                  /\ InClass(line.segs[i].v, cls)
                  /\ SpaceAfter(line, i)
        i == LastSeg({j \in 1..Len(line.segs) : Hit(j)})
    IN  IF i = 0 THEN NoMatch ELSE Groups(tag :> StrVal(line.segs[i].v))

\* ^.*(\[data[ ]"(?P<data>[^\[]*)[ ])  : the capture runs up to the last
\* space before the next bracket, so it keeps the closing quote and bracket
MatchData(line) ==
    LET Hit(i) == line.segs[i].t = "data" /\ SpaceAfter(line, i)
        i == LastSeg({j \in 1..Len(line.segs) : Hit(j)})
    IN  IF i = 0 THEN NoMatch
        ELSE Groups("data" :> StrVal(line.segs[i].v \o "\"]"))

\* ^.*(\[unique_id[ ]"(?P<unique_id>[^\[]*)"\])
MatchUniqueId(line) ==
    LET Hit(i) == line.segs[i].t = "unique_id"
        i == LastSeg({j \in 1..Len(line.segs) : Hit(j)})
    IN  IF i = 0 THEN NoMatch ELSE Groups("unique_id" :> StrVal(line.segs[i].v))

\* ^.*(?P<tags>(\[tag[ ]([^\[]*))+)  : the last tag segment and what follows
\* it up to the next bracket or the end of the line
MatchTags(line) ==
    LET Hit(i) == line.segs[i].t = "tag"
        i == LastSeg({j \in 1..Len(line.segs) : Hit(j)})
    IN  IF i = 0 THEN NoMatch
        ELSE Groups("tags" :> StrVal(SegText(line.segs[i])
                 \o (IF i < Len(line.segs) THEN " " ELSE line.trail)))

patterns ==
    << [kind |-> "detail"],
       [kind |-> "header"],
       [kind |-> "quoted", tag |-> "file",     cls |-> "path"],
       [kind |-> "quoted", tag |-> "line",     cls |-> "path"],
       [kind |-> "quoted", tag |-> "id",       cls |-> "digits"],
       [kind |-> "quoted", tag |-> "msg",      cls |-> "any"],
       [kind |-> "data"],
       [kind |-> "quoted", tag |-> "severity", cls |-> "any"],
       [kind |-> "quoted", tag |-> "ver",      cls |-> "any"],
       [kind |-> "quoted", tag |-> "hostname", cls |-> "any"],
       [kind |-> "quoted", tag |-> "uri",      cls |-> "any"],
       [kind |-> "unique_id"],
       [kind |-> "tags"] >>

\* re.match(re.compile(pattern, re.VERBOSE), line)
ReMatch(pattern, line) ==
    CASE pattern.kind = "detail"    -> MatchDetail(line)
      [] pattern.kind = "header"    -> MatchHeader(line)
      [] pattern.kind = "quoted"    -> MatchQuoted(line, pattern.tag, pattern.cls)
      [] pattern.kind = "data"      -> MatchData(line)
      [] pattern.kind = "unique_id" -> MatchUniqueId(line)
      [] pattern.kind = "tags"      -> MatchTags(line)

\* a merge that assigns the groups of the latest match instead of uniting
\* them with the record (the assignment left commented out at line 272)
MergeMatchAssign(output_line, clf_match) ==
    IF clf_match.matched THEN clf_match.groups ELSE output_line

\* one turn of "for pattern in patterns": merge the groups of a match
MergeMatch(output_line, clf_match) ==
    IF clf_match.matched THEN DictUnion(output_line, clf_match.groups)
    ELSE output_line

\* the loop over patterns[k..], started with output_line
RECURSIVE MatchFrom(_, _, _)
MatchFrom(line, k, output_line) ==
    IF k > Len(patterns) THEN output_line
    ELSE MatchFrom(line, k + 1,
                   MergeMatch(output_line, ReMatch(patterns[k], line)))

\* lines 260-276: output_line = {} and the loop over all patterns
MatchLine(line) == MatchFrom(line, 1, EmptyDict)


---------------------------------------------------------------------------
(* modsec_s._process                                                       *)

int_list == {"day", "year", "hour", "minute", "second", "status", "bytes",
             "pid", "line"}

\* jc.utils.convert_to_int on the strings the lines above can capture:
\* an integer, a float that is truncated, anything else gives None
convert_to_int(val) ==
    CASE val = StrVal("7")         -> IntVal(7)
      [] val = StrVal("08")        -> IntVal(8)
      [] val = StrVal("15")        -> IntVal(15)
      [] val = StrVal("39")        -> IntVal(39)
      [] val = StrVal("55.735479") -> IntVal(55)
      [] val = StrVal("2024")      -> IntVal(2024)
      [] val = StrVal("3426173")   -> IntVal(3426173)
      [] OTHER                     -> None

\* what jc.utils.timestamp(date, format_hint=(1800,)) can return for the
\* date of the header: the naive epoch when one of its formats parses the
\* date, None otherwise; the date names no time zone, so utc is None
TimestampResults ==
    {[naive |-> None, utc |-> None], [naive |-> IntVal(1704728395), utc |-> None]}

\* the body of the loop of lines 119-127 on one item (key, val): the value
\* proc_data[key] holds after it
ProcessItem(key, val) ==
    LET converted == IF key \in int_list THEN convert_to_int(val) ELSE val
    IN  IF val = StrVal("-") \/ val = StrVal("") THEN None ELSE converted

modsec_process(proc_data, ts) ==
    LET conv == [key \in DOMAIN proc_data |-> ProcessItem(key, proc_data[key])]
    IN  IF "date" \in DOMAIN conv
        THEN DictSet(DictSet(conv, "epoch", ts.naive), "epoch_utc", ts.utc)
        ELSE conv

---------------------------------------------------------------------------
(* modsec_s.parse, the generator.                                          *)

\* streaming_line_input_type_check(line): raises TypeError unless a str
LineTypeOk(line) == line.isStr

\* a try block that raises when no pattern matched (the ParseError left
\* commented out at line 292)
TryBodyRequireMatch(line, rawopt, ts) ==
    IF ~LineTypeOk(line) THEN [kind |-> "raise"]
    ELSE IF strip(line) = "" THEN [kind |-> "continue"]
    ELSE IF MatchLine(line) = EmptyDict THEN [kind |-> "raise"]
    ELSE [kind |-> "yield",
          value |-> IF rawopt THEN MatchLine(line)
                    ELSE modsec_process(MatchLine(line), ts)]

\* the try block of lines 258-290 on one line: what it ends with
TryBody(line, rawopt, ts) ==
    IF ~LineTypeOk(line) THEN [kind |-> "raise"]
    ELSE IF strip(line) = "" THEN [kind |-> "continue"]
    ELSE [kind |-> "yield",
          value |-> IF rawopt THEN MatchLine(line)
                    ELSE modsec_process(MatchLine(line), ts)]

\* raise_or_yield(ignore_exceptions, e, line): re-raises e unless
\* ignore_exceptions, and then returns the pair (e, line)
raise_or_yield(ignore, line) ==
    IF ignore THEN [raised |-> FALSE, value |-> [kind |-> "error", line |-> line]]
    ELSE [raised |-> TRUE]

Record(value) == [kind |-> "record", value |-> value]

\* the lines the driver is fed
BlankLine == [isStr |-> TRUE, lead |-> "", hdr |-> FALSE, detail |-> FALSE,
              segs |-> <<>>, trail |-> ""]
SpaceLine == [BlankLine EXCEPT !.lead = " ", !.trail = "\n"]
FullLine ==
    [isStr |-> TRUE, lead |-> "", hdr |-> TRUE, detail |-> TRUE,
     segs |-> <<[t |-> "line", v |-> "7"], [t |-> "msg", v |-> ""]>>,
     trail |-> "\n"]
DashLine ==
    [isStr |-> TRUE, lead |-> " ", hdr |-> FALSE, detail |-> FALSE,
     segs |-> <<[t |-> "line", v |-> "-"], [t |-> "id", v |-> "7"]>>,
     trail |-> " "]
TagLine ==
    [isStr |-> TRUE, lead |-> "", hdr |-> FALSE, detail |-> FALSE,
     segs |-> <<[t |-> "tag", v |-> "-"]>>, trail |-> "\n"]
PlainLine ==
    [isStr |-> TRUE, lead |-> "", hdr |-> FALSE, detail |-> TRUE,
     segs |-> <<>>, trail |-> "\n"]
DriverLines ==
    {NonStr, BlankLine, SpaceLine, FullLine, DashLine, TagLine, PlainLine}

DataSeqs == UNION {[1..k -> DriverLines] : k \in 0..MaxLines}

MIdle ==
    /\ data = <<>> /\ data_ok = TRUE /\ raw = FALSE
    /\ ignore_exceptions = FALSE /\ pc = "idle" /\ pos = 0 /\ out = <<>>

MInit ==
    /\ data_ok \in BOOLEAN
    /\ data \in (IF data_ok THEN DataSeqs ELSE {<<>>})
    /\ raw \in BOOLEAN
    /\ ignore_exceptions \in BOOLEAN
    /\ pc = "start"
    /\ pos = 0
    /\ out = <<>>

\* a driver that enters the loop without rejecting a wrong input type
CheckInputSkipped ==
    /\ UNCHANGED <<uvars, fvars, cvars>>
    /\ pc = "start"
    /\ pc' = "loop"
    /\ UNCHANGED <<data, data_ok, raw, ignore_exceptions, pos, out>>

\* line 163: streaming_input_type_check(data), outside the try block
CheckInput ==
    /\ UNCHANGED <<uvars, fvars, cvars>>
    /\ pc = "start"
    /\ pc' = IF data_ok THEN "loop" ELSE "raised"
    /\ UNCHANGED <<data, data_ok, raw, ignore_exceptions, pos, out>>

\* line 262: a blank line, continue
SkipBlank ==
    /\ UNCHANGED <<uvars, fvars, cvars>>
    /\ pc = "loop" /\ pos < Len(data)
    /\ \E ts \in TimestampResults :
          TryBody(data[pos + 1], raw, ts).kind = "continue"
    /\ pos' = pos + 1
    /\ UNCHANGED <<data, data_ok, raw, ignore_exceptions, pc, out>>

\* line 290: yield output_line if raw else _process(output_line)
YieldRecord ==
    /\ UNCHANGED <<uvars, fvars, cvars>>
    /\ pc = "loop" /\ pos < Len(data)
    /\ \E ts \in TimestampResults :
          LET r == TryBody(data[pos + 1], raw, ts)
          IN  /\ r.kind = "yield"
              /\ out' = Append(out, Record(r.value))
    /\ pos' = pos + 1
    /\ UNCHANGED <<data, data_ok, raw, ignore_exceptions, pc>>

\* a handler that prints the exception and goes on, yielding nothing (as
\* the handler of ufwlog.parse does)
YieldErrorSwallowed ==
    /\ UNCHANGED <<uvars, fvars, cvars>>
    /\ pc = "loop" /\ pos < Len(data)
    /\ \E ts \in TimestampResults :
          TryBody(data[pos + 1], raw, ts).kind = "raise"
    /\ ~raise_or_yield(ignore_exceptions, data[pos + 1]).raised
    /\ pos' = pos + 1
    /\ UNCHANGED <<data, data_ok, raw, ignore_exceptions, pc, out>>

\* lines 294-296: the try block raised and raise_or_yield returns
YieldError ==
    /\ UNCHANGED <<uvars, fvars, cvars>>
    /\ pc = "loop" /\ pos < Len(data)
    /\ \E ts \in TimestampResults :
          TryBody(data[pos + 1], raw, ts).kind = "raise"
    /\ ~raise_or_yield(ignore_exceptions, data[pos + 1]).raised
    /\ out' = Append(out, raise_or_yield(ignore_exceptions, data[pos + 1]).value)
    /\ pos' = pos + 1
    /\ UNCHANGED <<data, data_ok, raw, ignore_exceptions, pc>>

\* lines 294-296: the try block raised and raise_or_yield re-raises
Propagate ==
    /\ UNCHANGED <<uvars, fvars, cvars>>
    /\ pc = "loop" /\ pos < Len(data)
    /\ \E ts \in TimestampResults :
          TryBody(data[pos + 1], raw, ts).kind = "raise"
    /\ raise_or_yield(ignore_exceptions, data[pos + 1]).raised
    /\ pc' = "raised"
    /\ pos' = pos + 1
    /\ UNCHANGED <<data, data_ok, raw, ignore_exceptions, out>>

\* line 257: data is exhausted, the generator returns
Exhausted ==
    /\ UNCHANGED <<uvars, fvars, cvars>>
    /\ pc = "loop" /\ pos = Len(data)
    /\ pc' = "done"
    /\ UNCHANGED <<data, data_ok, raw, ignore_exceptions, pos, out>>


---------------------------------------------------------------------------
(* ufwlog: strings are sequences of symbols.  The symbol "type" stands for *)
(* the four letters of the word, which none of the string operations of    *)
(* Convert looks into.                                                     *)

Symbols == {"a", "type", "=", "[", "]", " "}

IndexOf(s, c) ==
    IF \E i \in 1..Len(s) : s[i] = c
    THEN CHOOSE i \in 1..Len(s) : s[i] = c /\ \A j \in 1..(i - 1) : s[j] # c
    ELSE 0

\* s.split(sep), sep one character: the pieces between the separators,
\* empty pieces kept
RECURSIVE Split(_, _)
Split(s, sep) ==
    LET i == IndexOf(s, sep)
    IN  IF i = 0 THEN <<s>>
        ELSE <<SubSeq(s, 1, i - 1)>> \o Split(SubSeq(s, i + 1, Len(s)), sep)

startswith(s, c) == s # <<>> /\ s[1] = c
endswith(s, c) == s # <<>> /\ s[Len(s)] = c

\* s.replace(c, '')
Remove(s, c) == SelectSeq(s, LAMBDA x : x # c)

\* s.lstrip()
RECURSIVE lstrip(_)
lstrip(s) == IF s # <<>> /\ s[1] = " " THEN lstrip(Tail(s)) ELSE s

\* s.isspace() is false on the empty string
isspace(s) == s # <<>> /\ \A i \in 1..Len(s) : s[i] = " "

TypeKey == <<"type">>

\* a decoder that discards a token of two or more "=" that is no bracket
\* token, instead of keeping it as a flag
ConvertFieldDiscard(res_dct, field) ==
    LET split_field == Split(field, "=")
    IN  IF Len(split_field) # 2
        THEN IF startswith(field, "[") \/ endswith(field, "]")
             THEN DictSet(res_dct, TypeKey,
                     StrVal(lstrip(res_dct[TypeKey].s \o <<" ">>
                                   \o Remove(Remove(field, "["), "]"))))
             ELSE IF Len(split_field) > 2 THEN res_dct
             ELSE DictSet(res_dct, field, StrVal(<<>>))
        ELSE DictSet(res_dct, split_field[1], StrVal(split_field[2]))

\* a decoder in which the first token of a key wins
ConvertFieldKeepFirst(res_dct, field) ==
    LET split_field == Split(field, "=")
    IN  IF Len(split_field) # 2
        THEN IF startswith(field, "[") \/ endswith(field, "]")
             THEN DictSet(res_dct, TypeKey,
                     StrVal(lstrip(res_dct[TypeKey].s \o <<" ">>
                                   \o Remove(Remove(field, "["), "]"))))
             ELSE DictSet(res_dct, field, StrVal(<<>>))
        ELSE IF split_field[1] \in DOMAIN res_dct THEN res_dct
        ELSE DictSet(res_dct, split_field[1], StrVal(split_field[2]))

\* the body of "for field in lst" of Convert, lines 83-92
ConvertField(res_dct, field) ==
    LET split_field == Split(field, "=")
    IN  IF Len(split_field) # 2
        THEN IF startswith(field, "[") \/ endswith(field, "]")
             THEN DictSet(res_dct, TypeKey,
                     StrVal(lstrip(res_dct[TypeKey].s \o <<" ">>
                                   \o Remove(Remove(field, "["), "]"))))
             ELSE DictSet(res_dct, field, StrVal(<<>>))
        ELSE DictSet(res_dct, split_field[1], StrVal(split_field[2]))

RECURSIVE ConvertFrom(_, _, _)
ConvertFrom(lst, i, res_dct) ==
    IF i > Len(lst) THEN res_dct
    ELSE ConvertFrom(lst, i + 1, ConvertField(res_dct, lst[i]))

\* Convert(lst), lines 79-95
Convert(lst) == ConvertFrom(lst, 1, TypeKey :> StrVal(<<>>))

---------------------------------------------------------------------------
(* ufwlog.parse.  A line is either text (its symbols) or the text of a     *)
(* JSON value that needs symbols outside the alphabet (an object, a        *)
(* number), kept as the value json.loads returns for it.                   *)

TextLine(chars) == [kind |-> "text", chars |-> chars]
JsonLine(value) == [kind |-> "json", value |-> value]

ObjectVal(d) == [t |-> "object", d |-> d]
ListVal == [t |-> "list"]

\* over the alphabet the only JSON texts are nested arrays of at most one
\* element, [], [[]], [ [ ] ], ... : n opening brackets then n closing ones,
\* white space anywhere
IsNestedArray(chars) ==
    LET b == Remove(chars, " ")
        n == Len(b) \div 2
    IN  /\ Len(b) >= 2 /\ Len(b) = 2 * n
        /\ \A i \in 1..n : b[i] = "["
        /\ \A i \in (n + 1)..Len(b) : b[i] = "]"

\* is_json(myjson), lines 140-145
is_json(line) ==
    IF line.kind = "json" THEN TRUE ELSE IsNestedArray(line.chars)

\* json.loads(line) where is_json(line)
json_loads(line) == IF line.kind = "json" THEN line.value ELSE ListVal

MessageKey == <<"message">>

\* the try block of lines 126-133 on one line: the dict appended to
\* raw_output, or the exception
Decode(line) ==
    IF ~is_json(line)
    THEN [kind |-> "append", value |-> DictVal(Convert(Split(line.chars, " ")))]
    ELSE LET json_output == json_loads(line)
         IN  IF json_output.t # "object" THEN [kind |-> "raise"]   \* TypeError
             ELSE IF MessageKey \notin DOMAIN json_output.d
                  THEN [kind |-> "raise"]                           \* KeyError
             ELSE IF json_output.d[MessageKey].t # "str"
                  THEN [kind |-> "raise"]                           \* AttributeError
             ELSE [kind |-> "append",
                   value |-> DictVal(DictSet(json_output.d, MessageKey,
                       DictVal(Convert(Split(json_output.d[MessageKey].s, " ")))))]

\* ufwlog._process, lines 60-78
ufwlog_process(proc_data) == proc_data

\* jc.utils.has_data(data): data is neither empty nor all white space
has_data(lines) ==
    \E i \in 1..Len(lines) :
        lines[i].kind = "json" \/ (lines[i].chars # <<>> /\ ~isspace(lines[i].chars))

HostKey == <<"host">>
EnvelopeLine ==
    JsonLine(ObjectVal((MessageKey :> StrVal(<<"a", "=", "a", " ", "[", "a">>))
                       @@ (HostKey :> StrVal(<<>>))))
NoMessageLine == JsonLine(ObjectVal(HostKey :> StrVal(<<"a">>)))
BadMessageLine == JsonLine(ObjectVal(MessageKey :> IntVal(7)))
NumberLine == JsonLine(IntVal(7))
ULines ==
    {TextLine(<<>>), TextLine(<<" ">>), TextLine(<<"a", "=", "a">>),
     TextLine(<<"a", "=", "=">>), TextLine(<<"[", "]">>),
     EnvelopeLine, NoMessageLine, BadMessageLine, NumberLine}

UDataSeqs == UNION {[1..k -> ULines] : k \in 0..MaxULines}

UIdle ==
    /\ udata = <<>> /\ uraw = FALSE /\ upc = "idle" /\ upos = 0
    /\ raw_output = <<>>

UInit ==
    /\ udata \in UDataSeqs
    /\ uraw \in BOOLEAN
    /\ upc = "start"
    /\ upos = 0
    /\ raw_output = <<>>

\* line 119: if jc.utils.has_data(data)
UStart ==
    /\ UNCHANGED <<mvars, fvars, cvars>>
    /\ upc = "start"
    /\ upc' = IF has_data(udata) THEN "loop" ELSE "return"
    /\ UNCHANGED <<udata, uraw, upos, raw_output>>

\* line 121: filter(None, ...) drops an empty line
UFilter ==
    /\ UNCHANGED <<mvars, fvars, cvars>>
    /\ upc = "loop" /\ upos < Len(udata)
    /\ udata[upos + 1] = TextLine(<<>>)
    /\ upos' = upos + 1
    /\ UNCHANGED <<udata, uraw, upc, raw_output>>

\* lines 128-133: the line is decoded and appended
UAppend ==
    /\ UNCHANGED <<mvars, fvars, cvars>>
    /\ upc = "loop" /\ upos < Len(udata)
    /\ udata[upos + 1] # TextLine(<<>>)
    /\ Decode(udata[upos + 1]).kind = "append"
    /\ raw_output' = Append(raw_output, Decode(udata[upos + 1]).value)
    /\ upos' = upos + 1
    /\ UNCHANGED <<udata, uraw, upc>>

\* line 134: except Exception as e: print(e)
USwallow ==
    /\ UNCHANGED <<mvars, fvars, cvars>>
    /\ upc = "loop" /\ upos < Len(udata)
    /\ udata[upos + 1] # TextLine(<<>>)
    /\ Decode(udata[upos + 1]).kind = "raise"
    /\ upos' = upos + 1
    /\ UNCHANGED <<udata, uraw, upc, raw_output>>

\* the loop ends
ULoopEnd ==
    /\ UNCHANGED <<mvars, fvars, cvars>>
    /\ upc = "loop" /\ upos = Len(udata)
    /\ upc' = "return"
    /\ UNCHANGED <<udata, uraw, upos, raw_output>>

\* line 137: return raw_output if raw else _process(raw_output)
UReturn ==
    /\ UNCHANGED <<mvars, fvars, cvars>>
    /\ upc = "return"
    /\ upc' = "returned"
    /\ raw_output' = IF uraw THEN raw_output ELSE ufwlog_process(raw_output)
    /\ UNCHANGED <<udata, uraw, upos>>


---------------------------------------------------------------------------
(* The matcher and Convert applied alone to one input.                     *)

LineSeqs(n) == UNION {[1..k -> Symbols] : k \in 0..n}

FIdle == mline = BlankLine /\ mres = EmptyDict /\ mpc = "idle"
CIdle == cline = <<>> /\ cres = EmptyDict /\ cpc = "idle"

\* the matcher runs on the lines that pass the blank test of line 261
FInit ==
    /\ mline \in {l \in StrLines(MaxSegs) : strip(l) # ""}
    /\ mres = EmptyDict
    /\ mpc = "ready"

FApply ==
    /\ UNCHANGED <<mvars, uvars, cvars>>
    /\ mpc = "ready"
    /\ mres' = MatchLine(mline)
    /\ mpc' = "done"
    /\ UNCHANGED mline

CInit ==
    /\ cline \in LineSeqs(MaxLineLen)
    /\ cres = EmptyDict
    /\ cpc = "ready"

\* Convert(line.split(" ")), line 129
CApply ==
    /\ UNCHANGED <<mvars, uvars, fvars>>
    /\ cpc = "ready"
    /\ cres' = Convert(Split(cline, " "))
    /\ cpc' = "done"
    /\ UNCHANGED cline

---------------------------------------------------------------------------
(* Specifications.                                                         *)

\* one run of either parser
Init == (MInit /\ UIdle /\ FIdle /\ CIdle) \/ (MIdle /\ UInit /\ FIdle /\ CIdle)

Next ==
    \/ CheckInput \/ SkipBlank \/ YieldRecord \/ YieldError \/ Propagate
    \/ Exhausted
    \/ UStart \/ UFilter \/ UAppend \/ USwallow \/ ULoopEnd \/ UReturn

Spec == Init /\ [][Next]_vars

\* the matcher applied to every line of the bounded set
InitMatcher == MIdle /\ UIdle /\ FInit /\ CIdle
NextMatcher == FApply
SpecMatcher == InitMatcher /\ [][NextMatcher]_vars

\* Convert applied to every line of the bounded set
InitConvert == MIdle /\ UIdle /\ FIdle /\ CInit
NextConvert == CApply
SpecConvert == InitConvert /\ [][NextConvert]_vars

---------------------------------------------------------------------------
(* Properties of modsec_s.parse.                                           *)

\* a line the driver skips: a str that is empty or all white space
MBlank(line) == line.isStr /\ strip(line) = ""
\* a line on which the try block fails: its type check raises
MFails(line) == ~line.isStr
\* the number of values the lines data[1..i] call for: one per line that is
\* not blank
Slot(i) == Cardinality({j \in 1..i : ~MBlank(data[j])})
ErrorItem(line) == [kind |-> "error", line |-> line]
\* the records the matcher and the normalization derive from a line
Derived(line) ==
    {Record(IF raw THEN MatchLine(line) ELSE modsec_process(MatchLine(line), ts)) :
        ts \in TimestampResults}

\* C1: a line whose processing raises gives, with ignore_exceptions on,
\* exactly one error item carrying that line at that line's place in the
\* output, and the generator goes on to the end of the input; with
\* ignore_exceptions off the failure propagates at that line, and nothing is
\* yielded for it or for any later line.
C1_ErrorIsolation ==
    /\ ignore_exceptions =>
          /\ (pc = "raised" => ~data_ok)
          /\ (pc = "done" => pos = Len(data))
          /\ Len(out) = Slot(pos)
          /\ \A i \in 1..pos :
                MFails(data[i]) => out[Slot(i)] = ErrorItem(data[i])
    /\ ~ignore_exceptions =>
          \A i \in 1..pos :
              MFails(data[i]) =>
                  /\ pc = "raised"
                  /\ pos = i
                  /\ Len(out) = Slot(i - 1)
                  /\ \A k \in 1..Len(out) : out[k].kind = "record"

\* C1 witness: in resilient mode a failing line gave its error item and the
\* line after it gave a record, up to the end of the input
C1_Witness ==
    /\ ignore_exceptions /\ pc = "done"
    /\ \E i \in 1..(Len(data) - 1) :
          /\ MFails(data[i])
          /\ data[i + 1].isStr /\ ~MBlank(data[i + 1])
          /\ Slot(i + 1) <= Len(out)
          /\ out[Slot(i)] = ErrorItem(data[i])
          /\ out[Slot(i + 1)].kind = "record"

\* C2: when no line fails, the output holds one record per non-blank line
\* consumed so far, the i-th record being the one derived from the i-th
\* non-blank line, and the generator ends only when the input is exhausted.
C2_OrderPreserved ==
    (pc # "idle" /\ pc # "start" /\ data_ok /\ \A i \in 1..pos : data[i].isStr) =>
        /\ pc \in {"loop", "done"}
        /\ (pc = "done" => pos = Len(data))
        /\ Len(out) = Slot(pos)
        /\ \A i \in 1..pos :
              ~MBlank(data[i]) => out[Slot(i)] \in Derived(data[i])

\* C2 witness: an input with a blank line between lines that give
\* different records, read to the end
C2_Witness ==
    /\ pc = "done" /\ Len(data) = 3
    /\ \A i \in 1..Len(data) : data[i].isStr
    /\ ~MBlank(data[1]) /\ MBlank(data[2]) /\ ~MBlank(data[3])
    /\ Len(out) = 2
    /\ out[1] # out[2]

---------------------------------------------------------------------------
(* Properties of the matcher.                                              *)

Matched(line) == {k \in 1..Len(patterns) : ReMatch(patterns[k], line).matched}
Defines(k, line) == DOMAIN ReMatch(patterns[k], line).groups
Max(S) == CHOOSE x \in S : \A y \in S : y <= x

\* C8: every record the matcher produces for a non-blank line holds a raw
\* field equal to the trimmed line.
C8_RawField ==
    mpc = "done" => ("raw" \in DOMAIN mres /\ mres["raw"] = StrVal(strip(mline)))

\* C10: the merged record has exactly the fields named by the patterns that
\* match the line, each holding the capture of the last matching pattern
\* that names it; a pattern that does not match adds and erases nothing.
C10_MergeOrder ==
    mpc = "done" =>
        /\ DOMAIN mres = UNION {Defines(k, mline) : k \in Matched(mline)}
        /\ \A name \in DOMAIN mres :
              LET last == Max({k \in Matched(mline) : name \in Defines(k, mline)})
              IN  mres[name] = ReMatch(patterns[last], mline).groups[name]

\* C10 witness: two patterns matched with one between them that did not,
\* and the record kept the fields of the earlier one
C10_Witness ==
    /\ mpc = "done"
    /\ \E k1, k2, k3 \in 1..Len(patterns) :
          /\ k1 < k2 /\ k2 < k3
          /\ k1 \in Matched(mline) /\ k3 \in Matched(mline)
          /\ k2 \notin Matched(mline)
          /\ Defines(k2, mline) = {}
          /\ Defines(k1, mline) \subseteq DOMAIN mres
          /\ Defines(k3, mline) \subseteq DOMAIN mres

---------------------------------------------------------------------------
(* Properties of Convert.                                                  *)

Tokens == Split(cline, " ")
EqCount(tok) == Len(Split(tok, "=")) - 1
KeyOf(tok) == Split(tok, "=")[1]
ValueOf(tok) == Split(tok, "=")[2]
Without(lst, i) == SubSeq(lst, 1, i - 1) \o SubSeq(lst, i + 1, Len(lst))
AllKeyValue == \A i \in 1..Len(Tokens) : EqCount(Tokens[i]) = 1

C7_Original ==
    (cpc = "done" /\ AllKeyValue) =>
        /\ DOMAIN cres = {KeyOf(Tokens[i]) : i \in 1..Len(Tokens)}
        /\ \A i \in 1..Len(Tokens) :
              (\A j \in (i + 1)..Len(Tokens) : KeyOf(Tokens[j]) # KeyOf(Tokens[i]))
              => cres[KeyOf(Tokens[i])] = StrVal(ValueOf(Tokens[i]))

\* C7 amended: when every token is key=value, the fields of the record are
\* the keys of the tokens and the field type; each key holds the value of
\* the last token of that key, and type holds the empty string unless a
\* token has the key type.
C7_Amended ==
    (cpc = "done" /\ AllKeyValue) =>
        /\ DOMAIN cres = {KeyOf(Tokens[i]) : i \in 1..Len(Tokens)} \cup {TypeKey}
        /\ \A i \in 1..Len(Tokens) :
              (\A j \in (i + 1)..Len(Tokens) : KeyOf(Tokens[j]) # KeyOf(Tokens[i]))
              => cres[KeyOf(Tokens[i])] = StrVal(ValueOf(Tokens[i]))
        /\ (\A i \in 1..Len(Tokens) : KeyOf(Tokens[i]) # TypeKey)
              => cres[TypeKey] = StrVal(<<>>)

\* C7 witness: two tokens of the same key and different values; the record
\* holds the second value
C7_Witness ==
    /\ cpc = "done" /\ AllKeyValue /\ Len(Tokens) = 2
    /\ KeyOf(Tokens[1]) = KeyOf(Tokens[2])
    /\ ValueOf(Tokens[1]) # ValueOf(Tokens[2])
    /\ cres[KeyOf(Tokens[2])] = StrVal(ValueOf(Tokens[2]))

---------------------------------------------------------------------------
(* Properties of both parsers.                                             *)

\* a ufwlog line that is empty or all white space
UBlank(line) ==
    line.kind = "text" /\ \A i \in 1..Len(line.chars) : line.chars[i] = " "
\* a ufwlog line whose decoding raises: valid JSON that is no object, or an
\* object without a message, or with a message that is no string
UFails(line) ==
    /\ is_json(line)
    /\ \/ json_loads(line).t # "object"
       \/ MessageKey \notin DOMAIN json_loads(line).d
       \/ json_loads(line).d[MessageKey].t # "str"
Unparsable(line) == DictVal(<<"unparsable">> :> line)

\* C3: a blank or white-space-only line gives no output record, in either
\* parser: the records never outnumber the non-blank lines consumed.
C3_BlankSkipped ==
    /\ Len(out) <= Cardinality({i \in 1..pos : ~MBlank(data[i])})
    /\ Len(raw_output) <= Cardinality({i \in 1..upos : ~UBlank(udata[i])})

\* C4: a line whose decoding raises in ufwlog.parse is never dropped: either
\* an unparsable record holding the line is in the output, or the failure
\* has reached the caller.
C4_NeverDropped ==
    \A i \in 1..upos :
        UFails(udata[i]) =>
            \/ upc = "raised"
            \/ \E k \in 1..Len(raw_output) : raw_output[k] = Unparsable(udata[i])

EpochFields == {"epoch", "epoch_utc"}
DashOrEmpty(v) == v.t = "str" /\ (v.s = "" \/ v.s = "-")
UDashOrEmpty(v) == v.t = "str" /\ (v.s = <<>> \/ v.s = <<"-">>)

\* C9: in non-raw mode no field of an emitted record holds "-" or the empty
\* string, in either parser, and normalization changes the field names of
\* the record by the epoch fields only.
C9_NoDashOrEmpty ==
    /\ ~raw =>
          /\ \A k \in 1..Len(out) :
                out[k].kind = "record" =>
                    \A f \in DOMAIN out[k].value : ~DashOrEmpty(out[k].value[f])
          /\ \A i \in 1..pos :
                (data[i].isStr /\ ~MBlank(data[i]) /\ Slot(i) <= Len(out)) =>
                    (DOMAIN out[Slot(i)].value) \ EpochFields
                        = DOMAIN MatchLine(data[i])
    /\ (~uraw /\ upc = "returned") =>
          \A k \in 1..Len(raw_output) :
              \A f \in DOMAIN raw_output[k].d : ~UDashOrEmpty(raw_output[k].d[f])


=============================================================================
